---- MODULE Spec2Model ----
(***************************************************************************)
(* CalibrationJob of industrial_extrinsic_cal                              *)
(* (src/industrial_extrinsic_cal/src/calibration_job_definition.cpp):      *)
(* load(), runObservations(), runOptimization() and run() as a state       *)
(* machine over the job's members ceres_blocks_, scene_list_,              *)
(* observation_data_point_list and problem_.                               *)
(*                                                                         *)
(* CeresBlocks, ObservationScene, the camera observer and ceres::Problem   *)
(* are used by the file but defined elsewhere; they are modelled at their  *)
(* interface.  Numeric seed values (intrinsics, poses, point coordinates)  *)
(* are abstract: a parameter block is represented by its handle, and a     *)
(* value read through a handle by the handle it was read through.          *)
(***************************************************************************)
EXTENDS Integers, Sequences, FiniteSets, TLC

VARIABLES
    files,                        \* contents of the three definition files
    ceres_blocks_,                \* the parameter-block registry
    target_objs,                  \* heap of Target objects (shared_ptr<Target>)
    scene_list_,                  \* std::vector<ObservationScene>
    observation_data_point_list,  \* .items of the ObservationDataPointList
    problem_,                     \* residual blocks of the ceres::Problem
    observer,                     \* per camera: state of its camera_observer_
    pc,                           \* position of the running member function
    cur,                          \* loop positions of runObservations
    calls,                        \* how many times each member was called
    last                          \* the last completed call and its result

vars == << files, ceres_blocks_, target_objs, scene_list_,
           observation_data_point_list, problem_, observer, pc, cur, calls, last >>

----------------------------------------------------------------------------
(* Bounds of the model *)

\* calls of runObservations() (directly or through run()) in one behaviour
MaxPasses == 2
\* calls of runOptimization() (directly or through run()) in one behaviour
MaxOptimizations == 2
\* calls of load() in one behaviour
MaxLoads == 2
\* observations one capture returns at most
MaxObs == 4
\* calls of load(), runObservations() and runOptimization() in one behaviour,
\* a call of run() counting as one of each of the latter two
MaxCalls == 4

----------------------------------------------------------------------------
(* Small helpers *)

NoScene == -1
NoPoint == -1

Range(s) == { s[i] : i \in 1..Len(s) }

Min(a, b) == IF a < b THEN a ELSE b

RECURSIVE Flatten(_)
Flatten(ss) == IF ss = << >> THEN << >> ELSE Head(ss) \o Flatten(Tail(ss))

----------------------------------------------------------------------------
(* The definition files.  A file either cannot be opened (ifstream fails), *)
(* or is malformed (the YAML parser throws on it), or parses to doc.       *)

File(d) == [opens |-> TRUE, parses |-> TRUE, doc |-> d]
Unopenable(d) == [opens |-> FALSE, parses |-> FALSE, doc |-> d]
Malformed(d) == [opens |-> TRUE, parses |-> FALSE, doc |-> d]

CameraDoc ==
    [ static_cameras |-> << [camera_name |-> "camA", image_topic |-> "topicA"] >>,
      moving_cameras |-> << [camera_name |-> "camB", image_topic |-> "topicB",
                             scene_id |-> 1] >> ]

TargetDoc ==
    [ static_targets |-> << [target_name |-> "tgtA", points |-> << "a0", "a1" >>] >>,
      moving_targets |-> << [target_name |-> "tgtB", scene_id |-> 1,
                             points |-> << "b0", "b1" >>] >> ]

\* one static camera; one static target with four points
CameraDocOne ==
    [ static_cameras |-> << [camera_name |-> "camA", image_topic |-> "topicA"] >>,
      moving_cameras |-> << >> ]

\* two static cameras
CameraDocStatics ==
    [ static_cameras |-> << [camera_name |-> "camA", image_topic |-> "topicA"],
                            [camera_name |-> "camC", image_topic |-> "topicC"] >>,
      moving_cameras |-> << >> ]

TargetDocFour ==
    [ static_targets |-> << [target_name |-> "tgtA",
                             points |-> << "a0", "a1", "a2", "a3" >>] >>,
      moving_targets |-> << >> ]

\* two static and two moving targets
TargetDocPairs ==
    [ static_targets |-> << [target_name |-> "tgtA", points |-> << "a0", "a1" >>],
                            [target_name |-> "tgtC", points |-> << "c0" >>] >>,
      moving_targets |-> << [target_name |-> "tgtB", scene_id |-> 1,
                             points |-> << "b0", "b1" >>],
                            [target_name |-> "tgtD", scene_id |-> 2,
                             points |-> << "d0" >>] >> ]

ObsNode(c, t, r) == [camera |-> c, target |-> t, roi |-> r]

\* a static camera and a static target seen in two scenes
JobStatic ==
    [ scenes |-> << [scene_id |-> 1, trigger_type |-> 0,
                     observations |-> << ObsNode("camA", "tgtA", 1) >>],
                    [scene_id |-> 2, trigger_type |-> 0,
                     observations |-> << ObsNode("camA", "tgtA", 2) >>] >> ]

\* a moving camera and a moving target seen in two scenes
JobMoving ==
    [ scenes |-> << [scene_id |-> 1, trigger_type |-> 0,
                     observations |-> << ObsNode("camB", "tgtB", 1) >>],
                    [scene_id |-> 2, trigger_type |-> 1,
                     observations |-> << ObsNode("camB", "tgtB", 2) >>] >> ]

\* the static camera looks at the moving target, the moving camera at the
\* static target, each in its own scene
JobCrossed ==
    [ scenes |-> << [scene_id |-> 1, trigger_type |-> 0,
                     observations |-> << ObsNode("camA", "tgtB", 1) >>],
                    [scene_id |-> 2, trigger_type |-> 0,
                     observations |-> << ObsNode("camB", "tgtA", 2) >>] >> ]

\* each camera looks at the target of its own kind, each in its own scene
JobPaired ==
    [ scenes |-> << [scene_id |-> 1, trigger_type |-> 0,
                     observations |-> << ObsNode("camA", "tgtA", 1) >>],
                    [scene_id |-> 2, trigger_type |-> 0,
                     observations |-> << ObsNode("camB", "tgtB", 2) >>] >> ]

\* one scene in which two cameras look at the same static target
JobTwoCameras ==
    [ scenes |-> << [scene_id |-> 1, trigger_type |-> 0,
                     observations |-> << ObsNode("camA", "tgtA", 1),
                                         ObsNode("camB", "tgtA", 2) >>] >> ]

\* one scene with two observation commands for the same camera
JobTwoTargets ==
    [ scenes |-> << [scene_id |-> 1, trigger_type |-> 0,
                     observations |-> << ObsNode("camA", "tgtA", 1),
                                         ObsNode("camA", "tgtB", 2) >>] >> ]

\* the same two commands in the other order
JobTwoTargetsSwapped ==
    [ scenes |-> << [scene_id |-> 1, trigger_type |-> 0,
                     observations |-> << ObsNode("camA", "tgtB", 1),
                                         ObsNode("camA", "tgtA", 2) >>] >> ]

\* one scene in which the camera looks at the target
JobOneScene ==
    [ scenes |-> << [scene_id |-> 1, trigger_type |-> 0,
                     observations |-> << ObsNode("camA", "tgtA", 1) >>] >> ]

\* one scene in which the camera looks at the second static target
JobSecondTarget ==
    [ scenes |-> << [scene_id |-> 1, trigger_type |-> 0,
                     observations |-> << ObsNode("camA", "tgtC", 1) >>] >> ]

\* the static camera looks at the moving target in two scenes
JobMovingTarget ==
    [ scenes |-> << [scene_id |-> 1, trigger_type |-> 0,
                     observations |-> << ObsNode("camA", "tgtB", 1) >>],
                    [scene_id |-> 2, trigger_type |-> 0,
                     observations |-> << ObsNode("camA", "tgtB", 2) >>] >> ]

\* one scene in which two static cameras look at the same static target
JobTwoStatics ==
    [ scenes |-> << [scene_id |-> 1, trigger_type |-> 0,
                     observations |-> << ObsNode("camA", "tgtA", 1),
                                         ObsNode("camC", "tgtA", 2) >>] >> ]

\* a job without scenes
JobEmpty == [ scenes |-> << >> ]

JobDocs ==
    { JobStatic, JobMoving, JobCrossed, JobPaired, JobTwoCameras, JobTwoTargets,
      JobTwoTargetsSwapped, JobMovingTarget, JobEmpty }

\* one static camera, one static target with four points, one scene
FourPointFiles ==
    [camera |-> File(CameraDocOne), target |-> File(TargetDocFour),
     caljob |-> File(JobOneScene)]


\* two static cameras in one scene
TwoStaticsFiles ==
    [camera |-> File(CameraDocStatics), target |-> File(TargetDoc),
     caljob |-> File(JobTwoStatics)]

\* a job that names a camera the camera document does not define: the lookup
\* of line 388 finds nothing for camC
UnknownCameraFiles ==
    [camera |-> File(CameraDoc), target |-> File(TargetDoc),
     caljob |-> File(JobTwoStatics)]

\* With TargetDocPairs no registered target is named tgtA any more once the
\* target document is read (lines 278 and 313 rename the one Target), so the
\* lookups of JobStatic and JobOneScene at line 398 find nothing.
FileSets ==
    { [camera |-> File(CameraDoc), target |-> File(TargetDoc), caljob |-> File(j)] :
        j \in JobDocs }
    \cup { FourPointFiles, TwoStaticsFiles, UnknownCameraFiles }
    \cup { [camera |-> File(CameraDoc), target |-> File(TargetDocPairs), caljob |-> File(j)] :
             j \in { JobEmpty, JobSecondTarget, JobStatic, JobOneScene } }
    \cup { [camera |-> c, target |-> File(TargetDoc), caljob |-> File(JobStatic)] :
             c \in { Unopenable(CameraDoc), Malformed(CameraDoc) } }
    \cup { [camera |-> File(CameraDoc), target |-> t, caljob |-> File(JobStatic)] :
             t \in { Unopenable(TargetDoc), Malformed(TargetDoc) } }
    \cup { [camera |-> File(CameraDoc), target |-> File(TargetDoc), caljob |-> j] :
             j \in { Unopenable(JobStatic), Malformed(JobStatic) } }

CameraNames == { "camA", "camB", "camC" }

----------------------------------------------------------------------------
(* Parameter-block registry (CeresBlocks).  It keeps the cameras and       *)
(* targets it was given, by reference; a block belongs to a registered     *)
(* entity and is looked up by role, name and, for the scene-private        *)
(* blocks, scene id.  gen counts clearCamerasTargets(): a handle issued    *)
(* before a clear is not a handle of the registry after it.                *)

EmptyBlocks(g) ==
    [ static_cameras |-> << >>, moving_cameras |-> << >>,
      static_targets |-> << >>, moving_targets |-> << >>, gen |-> g ]

Handle(role, kind, name, scene, pt, g) ==
    [ role |-> role, kind |-> kind, name |-> name, scene |-> scene,
      pt |-> pt, gen |-> g ]

\* what a lookup gives for an entity that was never registered
NotFound == Handle("NotFound", "", "", NoScene, NoPoint, -1)
NoCamera == [camera_name_ |-> "", is_moving_ |-> FALSE]
\* the empty pointer getTargetByName returns for a name no target carries
NoTarget == 0

clearCamerasTargets(reg) == EmptyBlocks(reg.gen + 1)

addStaticCamera(reg, cam) ==
    IF \E c \in Range(reg.static_cameras) : c.camera_name_ = cam.camera_name_
    THEN reg
    ELSE [reg EXCEPT !.static_cameras = Append(@, cam)]

addMovingCamera(reg, cam, scene_id) ==
    IF \E m \in Range(reg.moving_cameras) :
          m.cam.camera_name_ = cam.camera_name_ /\ m.scene_id = scene_id
    THEN reg
    ELSE [reg EXCEPT !.moving_cameras = Append(@, [cam |-> cam, scene_id |-> scene_id])]

addStaticTarget(reg, heap, t) ==
    IF \E o \in Range(reg.static_targets) : heap[o].target_name = heap[t].target_name
    THEN reg
    ELSE [reg EXCEPT !.static_targets = Append(@, t)]

addMovingTarget(reg, heap, t, scene_id) ==
    IF \E m \in Range(reg.moving_targets) :
          heap[m.targ].target_name = heap[t].target_name /\ m.scene_id = scene_id
    THEN reg
    ELSE [reg EXCEPT !.moving_targets = Append(@, [targ |-> t, scene_id |-> scene_id])]

getStaticCameraParameterBlockIntrinsics(reg, name) ==
    IF \E c \in Range(reg.static_cameras) : c.camera_name_ = name
    THEN Handle("intrinsics", "static", name, NoScene, NoPoint, reg.gen)
    ELSE NotFound

getStaticCameraParameterBlockExtrinsics(reg, name) ==
    IF \E c \in Range(reg.static_cameras) : c.camera_name_ = name
    THEN Handle("extrinsics", "static", name, NoScene, NoPoint, reg.gen)
    ELSE NotFound

getMovingCameraParameterBlockIntrinsics(reg, name) ==
    IF \E m \in Range(reg.moving_cameras) : m.cam.camera_name_ = name
    THEN Handle("intrinsics", "moving", name, NoScene, NoPoint, reg.gen)
    ELSE NotFound

getMovingCameraParameterBlockExtrinsics(reg, name, scene_id) ==
    IF \E m \in Range(reg.moving_cameras) :
          m.cam.camera_name_ = name /\ m.scene_id = scene_id
    THEN Handle("extrinsics", "moving", name, scene_id, NoPoint, reg.gen)
    ELSE NotFound

getStaticTargetPoseParameterBlock(reg, heap, name) ==
    IF \E o \in Range(reg.static_targets) : heap[o].target_name = name
    THEN Handle("pose", "static", name, NoScene, NoPoint, reg.gen)
    ELSE NotFound

getStaticTargetPointParameterBlock(reg, heap, name, pnt_id) ==
    IF \E o \in Range(reg.static_targets) :
          heap[o].target_name = name /\ pnt_id \in 0..(Len(heap[o].pts) - 1)
    THEN Handle("point", "static", name, NoScene, pnt_id, reg.gen)
    ELSE NotFound

getMovingTargetPoseParameterBlock(reg, heap, name, scene_id) ==
    IF \E m \in Range(reg.moving_targets) :
          heap[m.targ].target_name = name /\ m.scene_id = scene_id
    THEN Handle("pose", "moving", name, scene_id, NoPoint, reg.gen)
    ELSE NotFound

getMovingTargetPointParameterBlock(reg, heap, name, pnt_id) ==
    IF \E m \in Range(reg.moving_targets) :
          heap[m.targ].target_name = name /\ pnt_id \in 0..(Len(heap[m.targ].pts) - 1)
    THEN Handle("point", "moving", name, NoScene, pnt_id, reg.gen)
    ELSE NotFound

\* the cameras (targets) of the registry that carry the name, static ones first
CamerasNamed(reg, name) ==
    SelectSeq(reg.static_cameras, LAMBDA c : c.camera_name_ = name)
    \o SelectSeq([i \in 1..Len(reg.moving_cameras) |-> reg.moving_cameras[i].cam],
                 LAMBDA c : c.camera_name_ = name)

TargetsNamed(reg, heap, name) ==
    SelectSeq(reg.static_targets, LAMBDA o : heap[o].target_name = name)
    \o SelectSeq([i \in 1..Len(reg.moving_targets) |-> reg.moving_targets[i].targ],
                 LAMBDA o : heap[o].target_name = name)

getCameraByName(reg, name) ==
    IF CamerasNamed(reg, name) = << >> THEN NoCamera ELSE Head(CamerasNamed(reg, name))

\* When several registered targets carry the name, which of them is returned
\* is the registry's choice: pick selects the first or the last match.
getTargetByName(reg, heap, name, pick) ==
    LET found == TargetsNamed(reg, heap, name)
    IN  IF found = << >> THEN NoTarget
        ELSE IF pick = "first" THEN Head(found) ELSE found[Len(found)]

\* every block the registry holds
RegistryBlocks(reg, heap) ==
    { Handle(r, "static", c.camera_name_, NoScene, NoPoint, reg.gen) :
        r \in {"intrinsics", "extrinsics"}, c \in Range(reg.static_cameras) }
    \cup { Handle("intrinsics", "moving", m.cam.camera_name_, NoScene, NoPoint, reg.gen) :
        m \in Range(reg.moving_cameras) }
    \cup { Handle("extrinsics", "moving", m.cam.camera_name_, m.scene_id, NoPoint, reg.gen) :
        m \in Range(reg.moving_cameras) }
    \cup { Handle("pose", "static", heap[o].target_name, NoScene, NoPoint, reg.gen) :
        o \in Range(reg.static_targets) }
    \cup UNION { { Handle("point", "static", heap[o].target_name, NoScene, p, reg.gen) :
                     p \in 0..(Len(heap[o].pts) - 1) } : o \in Range(reg.static_targets) }
    \cup { Handle("pose", "moving", heap[m.targ].target_name, m.scene_id, NoPoint, reg.gen) :
        m \in Range(reg.moving_targets) }
    \cup UNION { { Handle("point", "moving", heap[m.targ].target_name, NoScene, p, reg.gen) :
                     p \in 0..(Len(heap[m.targ].pts) - 1) } : m \in Range(reg.moving_targets) }

----------------------------------------------------------------------------
(* load()                                                                  *)

Camera(name, moving) == [camera_name_ |-> name, is_moving_ |-> moving]

\* lines 181-205: one new Camera per definition, registered as static
RECURSIVE LoadStaticCameras(_, _)
LoadStaticCameras(reg, defs) ==
    IF defs = << >> THEN reg
    ELSE LoadStaticCameras(addStaticCamera(reg, Camera(Head(defs).camera_name, FALSE)),
                           Tail(defs))

\* lines 212-234: one new Camera per definition, registered for its scene
RECURSIVE LoadMovingCameras(_, _)
LoadMovingCameras(reg, defs) ==
    IF defs = << >> THEN reg
    ELSE LoadMovingCameras(addMovingCamera(reg, Camera(Head(defs).camera_name, TRUE),
                                           Head(defs).scene_id),
                           Tail(defs))

\* a default-constructed Target
NewTarget(moving) == [target_name |-> "", is_moving |-> moving, pts |-> << >>]

\* lines 276-301: every definition is read into the one Target temp_target
\* points to (made at line 274), which is then handed to the registry
RECURSIVE LoadStaticTargets(_, _, _)
LoadStaticTargets(st, t, defs) ==
    IF defs = << >> THEN st
    ELSE LET heap == [st.heap EXCEPT ![t].target_name = Head(defs).target_name,
                                     ![t].pts = @ \o Head(defs).points]
         IN  LoadStaticTargets([reg |-> addStaticTarget(st.reg, heap, t), heap |-> heap],
                               t, Tail(defs))

\* lines 311-335: the same for the one Target made at line 308
RECURSIVE LoadMovingTargets(_, _, _)
LoadMovingTargets(st, t, defs) ==
    IF defs = << >> THEN st
    ELSE LET heap == [st.heap EXCEPT ![t].target_name = Head(defs).target_name,
                                     ![t].pts = @ \o Head(defs).points]
         IN  LoadMovingTargets([reg |-> addMovingTarget(st.reg, heap, t, Head(defs).scene_id),
                                heap |-> heap],
                               t, Tail(defs))

\* lines 263-336
LoadTargets(reg, heap, doc) ==
    LET s  == Len(heap) + 1
        m  == Len(heap) + 2
        h0 == heap \o << NewTarget(FALSE), NewTarget(TRUE) >>
        st == LoadStaticTargets([reg |-> reg, heap |-> h0], s, doc.static_targets)
    IN  LoadMovingTargets(st, m, doc.moving_targets)

\* a default-constructed ObservationScene
NewScene ==
    [ scene_id |-> 0, trigger_type |-> 0,
      cameras_in_scene_ |-> << >>, observation_command_list_ |-> << >> ]

\* scene_list_.resize(n), line 371
Resize(scenes, n) ==
    IF Len(scenes) >= n THEN SubSeq(scenes, 1, n)
    ELSE scenes \o [i \in 1..(n - Len(scenes)) |-> NewScene]

\* ObservationScene::addCameraToScene: the cameras of a scene are a set
addCameraToScene(scene, cam) ==
    IF \E c \in Range(scene.cameras_in_scene_) : c.camera_name_ = cam.camera_name_
    THEN scene
    ELSE [scene EXCEPT !.cameras_in_scene_ = Append(@, cam)]

\* ObservationScene::populateObsCmdList
populateObsCmdList(scene, cam, targ, roi) ==
    [scene EXCEPT !.observation_command_list_ =
                      Append(@, [camera |-> cam, target |-> targ, roi |-> roi])]

\* lines 374-380: the trigger and the id of scene number i of the list
SetScene(scenes, i, def) ==
    [scenes EXCEPT ![i].scene_id = def.scene_id, ![i].trigger_type = def.trigger_type]

\* the Target made at line 355, which nothing but temp_targ refers to
ScratchTarget == -1

\* lines 386-400 for observation node number j of scene number i.
\* st.temp_targ is what temp_targ points to.  Line 397 reads the target's name
\* THROUGH temp_targ: into the Target of line 355 at the first node, into the
\* Target the previous lookup returned at a later one, which is renamed by
\* it.  When the previous lookup found nothing, temp_targ is empty and line 397
\* writes through an empty pointer: load() ends there (st.crashed), with the
\* camera of the node already in the scene (line 390) and no command for it.
LoadObservation(st, reg, i, node, pick) ==
    LET temp_cam == getCameraByName(reg, node.camera)
        with_cam == [st.scenes EXCEPT ![i] = addCameraToScene(@, temp_cam)]
        heap     == IF st.temp_targ = ScratchTarget THEN st.heap
                    ELSE [st.heap EXCEPT ![st.temp_targ].target_name = node.target]
        targ     == getTargetByName(reg, heap, node.target, pick)
    IN  IF st.crashed THEN st
        ELSE IF st.temp_targ = NoTarget
        THEN [st EXCEPT !.scenes = with_cam, !.crashed = TRUE]
        ELSE [ heap      |-> heap,
               temp_targ |-> targ,
               scenes    |-> [with_cam EXCEPT ![i] =
                                 populateObsCmdList(@, temp_cam, targ, node.roi)],
               crashed   |-> FALSE ]

\* lines 384-402: the observation nodes of scene number i, in their order
RECURSIVE LoadObservations(_, _, _, _, _)
LoadObservations(st, reg, i, nodes, pick) ==
    IF nodes = << >> THEN st
    ELSE LoadObservations(LoadObservation(st, reg, i, Head(nodes), pick),
                          reg, i, Tail(nodes), pick)

\* lines 372-403 for the scenes from number i on
RECURSIVE LoadScenesFrom(_, _, _, _, _)
LoadScenesFrom(st, reg, defs, i, pick) ==
    IF i > Len(defs) \/ st.crashed THEN st
    ELSE LoadScenesFrom(
             LoadObservations([st EXCEPT !.scenes = SetScene(@, i, defs[i])],
                              reg, i, defs[i].observations, pick),
             reg, defs, i + 1, pick)

\* lines 354-404
LoadScenes(reg, heap, scenes, doc, pick) ==
    LoadScenesFrom([ heap |-> heap, temp_targ |-> ScratchTarget,
                     scenes |-> Resize(scenes, Len(doc.scenes)), crashed |-> FALSE ],
                   reg, doc.scenes, 1, pick)

\* load(): the result and the members it leaves behind.  ret is "crash" when
\* load() did not return: the process ended at line 397.
LoadResult(ret, reg, heap, scenes) ==
    [ret |-> ret, reg |-> reg, heap |-> heap, scenes |-> scenes]

Load(f, reg, heap, scenes, pick) ==
    IF ~f.camera.opens \/ ~f.target.opens \/ ~f.caljob.opens
    THEN LoadResult("false", reg, heap, scenes)                     \* lines 146-163
    ELSE IF ~f.camera.parses
    THEN LoadResult("false", reg, heap, scenes)                     \* lines 237-260
    ELSE LET reg1 == LoadMovingCameras(
                        LoadStaticCameras(reg, f.camera.doc.static_cameras),
                        f.camera.doc.moving_cameras)
         IN  IF ~f.target.parses
             THEN LoadResult("false", reg1, heap, scenes)           \* lines 339-344
             ELSE LET st == LoadTargets(reg1, heap, f.target.doc)
                  IN  IF ~f.caljob.parses
                      THEN LoadResult("false", st.reg, st.heap, scenes) \* lines 406-411
                      ELSE LET sc == LoadScenes(st.reg, st.heap, scenes,
                                                f.caljob.doc, pick)
                           IN  LoadResult(IF sc.crashed THEN "crash" ELSE "true",
                                          st.reg, sc.heap, sc.scenes)

----------------------------------------------------------------------------
(* The capture interface of a camera (camera_observer_).  load() gives an  *)
(* observer to the static cameras (line 203) and none to the moving ones   *)
(* (lines 212-234), whose camera_observer_ stays the empty pointer.        *)

\* recorded tells when the observations were recorded: the number of the pass
\* and the number of the scene in the list
NewObserver ==
    [targets |-> << >>, observations |-> << >>, status |-> "idle", recorded |-> << 0, 0 >>]

\* the empty camera_observer_ of a Camera that was given no observer
NoObserver ==
    [targets |-> << >>, observations |-> << >>, status |-> "none", recorded |-> << 0, 0 >>]

clearObservations(ob) == [ob EXCEPT !.observations = << >>]
clearTargets(ob) == [ob EXCEPT !.targets = << >>]
addTarget(ob, targ, roi) == [ob EXCEPT !.targets = Append(@, [target |-> targ, roi |-> roi])]
triggerCamera(ob) == [ob EXCEPT !.status = "capturing"]
observationsDone(ob) == ob.status = "done"
getObservations(ob) == ob.observations

\* line 203: every static camera load() makes gets a new observer.  The
\* registry keeps the camera it already holds under the name (addStaticCamera
\* does nothing then), and with it that camera's observer.  obs maps the name
\* of a camera to the observer of the camera known under the name.
LoadObservers(f, reg, obs) ==
    IF ~f.camera.opens \/ ~f.target.opens \/ ~f.caljob.opens \/ ~f.camera.parses
    THEN obs
    ELSE LET reg1 == LoadStaticCameras(reg, f.camera.doc.static_cameras)
             held(r, c) == \E k \in Range(r.static_cameras) : k.camera_name_ = c
         IN  [c \in DOMAIN obs |->
                IF held(reg1, c) /\ ~held(reg, c) THEN NewObserver ELSE obs[c]]

\* what a capture can see: the points of the targets the observer was given
Observation(targ, p) ==
    [target |-> targ, point_id |-> p, image_loc_x |-> 100 + p, image_loc_y |-> 200 + p]

Visible(ob, heap) ==
    Flatten([i \in 1..Len(ob.targets) |->
               [p \in 1..Len(heap[ob.targets[i].target].pts) |->
                  Observation(ob.targets[i].target, p - 1)]])

\* the observation lists a capture may record
ObsChoices(ob, heap) ==
    { SubSeq(Visible(ob, heap), 1, k) : k \in 0..Min(Len(Visible(ob, heap)), MaxObs) }

----------------------------------------------------------------------------
(* runObservations()                                                       *)

\* the elements of s before the first one whose index is in bad
Before(s, bad) ==
    IF bad = {} THEN s
    ELSE SubSeq(s, 1, (CHOOSE k \in bad : \A j \in bad : k <= j) - 1)

\* the cameras of the list that have no observer: lines 56, 57 and 74 call
\* through camera_observer_.  What getCameraByName gave for a name no camera
\* carries is not a camera load() made, and has none either.
Unobserved(obs, cams) ==
    { k \in 1..Len(cams) :
        \/ cams[k].camera_name_ \notin DOMAIN obs
        \/ obs[cams[k].camera_name_].status = "none" }

\* the commands of the list that have no target: line 66 reads the name
\* through the command's target
Untargeted(cmds) == { k \in 1..Len(cmds) : cmds[k].target = NoTarget }

\* the loop of lines 53-58 without the two calls in its body
ClearObserversKeepsAll(obs, cams) == obs

\* lines 53-58
RECURSIVE ClearObservers(_, _)
ClearObservers(obs, cams) ==
    IF cams = << >> THEN obs
    ELSE ClearObservers([obs EXCEPT ![Head(cams).camera_name_] =
                                        clearTargets(clearObservations(@))],
                        Tail(cams))

\* lines 62-70
RECURSIVE AddTargets(_, _)
AddTargets(obs, cmds) ==
    IF cmds = << >> THEN obs
    ELSE AddTargets([obs EXCEPT ![Head(cmds).camera.camera_name_] =
                                    addTarget(@, Head(cmds).target, Head(cmds).roi)],
                    Tail(cmds))

\* lines 72-75
RECURSIVE TriggerCameras(_, _)
TriggerCameras(obs, cams) ==
    IF cams = << >> THEN obs
    ELSE TriggerCameras([obs EXCEPT ![Head(cams).camera_name_] = triggerCamera(@)],
                        Tail(cams))

\* RegisterCamera with the test of isMoving() inverted: a static camera goes
\* the way of a moving one
RegisterCameraInverted(reg, camera, scene_id) ==
    IF camera.is_moving_
    THEN LET r == addStaticCamera(reg, camera)
         IN  [ reg |-> r,
               intrinsics |-> getStaticCameraParameterBlockIntrinsics(r, camera.camera_name_),
               extrinsics |-> getStaticCameraParameterBlockExtrinsics(r, camera.camera_name_) ]
    ELSE LET r == addMovingCamera(reg, camera, scene_id)
         IN  [ reg |-> r,
               intrinsics |-> getMovingCameraParameterBlockIntrinsics(r, camera.camera_name_),
               extrinsics |-> getMovingCameraParameterBlockExtrinsics(r, camera.camera_name_,
                                                                      scene_id) ]

\* the two lookups of lines 93-107 without the add calls before them
RegisterCameraWithoutAdd(reg, camera, scene_id) ==
    IF camera.is_moving_
    THEN [ reg |-> reg,
           intrinsics |-> getMovingCameraParameterBlockIntrinsics(reg, camera.camera_name_),
           extrinsics |-> getMovingCameraParameterBlockExtrinsics(reg, camera.camera_name_,
                                                                  scene_id) ]
    ELSE [ reg |-> reg,
           intrinsics |-> getStaticCameraParameterBlockIntrinsics(reg, camera.camera_name_),
           extrinsics |-> getStaticCameraParameterBlockExtrinsics(reg, camera.camera_name_) ]

\* lines 93-107: the camera is registered and its two blocks are looked up
RegisterCamera(reg, camera, scene_id) ==
    IF camera.is_moving_
    THEN LET r == addMovingCamera(reg, camera, scene_id)
         IN  [ reg |-> r,
               intrinsics |-> getMovingCameraParameterBlockIntrinsics(r, camera.camera_name_),
               extrinsics |-> getMovingCameraParameterBlockExtrinsics(r, camera.camera_name_,
                                                                      scene_id) ]
    ELSE LET r == addStaticCamera(reg, camera)
         IN  [ reg |-> r,
               intrinsics |-> getStaticCameraParameterBlockIntrinsics(r, camera.camera_name_),
               extrinsics |-> getStaticCameraParameterBlockExtrinsics(r, camera.camera_name_) ]

\* the registration of a target that gives a moving target a pose block only
\* in the first scene that sees it
RegisterTargetFirstScene(reg, heap, observation, scene_id) ==
    LET target_name == heap[observation.target].target_name
        pnt_id == observation.point_id
    IN  IF heap[observation.target].is_moving
        THEN LET r == IF \E m \in Range(reg.moving_targets) :
                            heap[m.targ].target_name = target_name
                      THEN reg
                      ELSE addMovingTarget(reg, heap, observation.target, scene_id)
             IN  [ reg |-> r,
                   target_pose |-> getMovingTargetPoseParameterBlock(r, heap, target_name,
                                                                     scene_id),
                   pnt_pos |-> getMovingTargetPointParameterBlock(r, heap, target_name,
                                                                  pnt_id) ]
        ELSE LET r == addStaticTarget(reg, heap, observation.target)
             IN  [ reg |-> r,
                   target_pose |-> getStaticTargetPoseParameterBlock(r, heap, target_name),
                   pnt_pos |-> getStaticTargetPointParameterBlock(r, heap, target_name,
                                                                  pnt_id) ]

\* lines 116-131: the observed target is registered and its two blocks are looked up
RegisterTarget(reg, heap, observation, scene_id) ==
    LET target_name == heap[observation.target].target_name
        pnt_id == observation.point_id
    IN  IF heap[observation.target].is_moving
        THEN LET r == addMovingTarget(reg, heap, observation.target, scene_id)
             IN  [ reg |-> r,
                   target_pose |-> getMovingTargetPoseParameterBlock(r, heap, target_name,
                                                                     scene_id),
                   pnt_pos |-> getMovingTargetPointParameterBlock(r, heap, target_name,
                                                                  pnt_id) ]
        ELSE LET r == addStaticTarget(reg, heap, observation.target)
             IN  [ reg |-> r,
                   target_pose |-> getStaticTargetPoseParameterBlock(r, heap, target_name),
                   pnt_pos |-> getStaticTargetPointParameterBlock(r, heap, target_name,
                                                                  pnt_id) ]

\* the data point with the two camera handles in each other's place
ObservationDataPointSwapped(c_name, t_name, s_id, c_intrinsics, c_extrinsics, point_id, t_pose, p_position, image_x, image_y) ==
    [ camera_name_ |-> c_name, target_name_ |-> t_name, scene_id_ |-> s_id,
      camera_intrinsics_ |-> c_extrinsics, camera_extrinsics_ |-> c_intrinsics,
      point_id_ |-> point_id, target_pose_ |-> t_pose, point_position_ |-> p_position,
      image_x_ |-> image_x, image_y_ |-> image_y ]

\* lines 132-133
ObservationDataPoint(c_name, t_name, s_id, c_intrinsics, c_extrinsics, point_id, t_pose, p_position, image_x, image_y) ==
    [ camera_name_ |-> c_name, target_name_ |-> t_name, scene_id_ |-> s_id,
      camera_intrinsics_ |-> c_intrinsics, camera_extrinsics_ |-> c_extrinsics,
      point_id_ |-> point_id, target_pose_ |-> t_pose, point_position_ |-> p_position,
      image_x_ |-> image_x, image_y_ |-> image_y ]

\* ObservationDataPointList::addObservationPoint
addObservationPoint(items, odp) == Append(items, odp)

\* lines 116-134, the body of the loop over the observations: st is the
\* registry and the list; cb holds the camera's name and blocks
CollectObservation(st, heap, cb, scene_id, observation) ==
    LET t == RegisterTarget(st.reg, heap, observation, scene_id)
        temp_ODP == ObservationDataPoint(cb.camera_name,
                                         heap[observation.target].target_name,
                                         scene_id, cb.intrinsics, cb.extrinsics,
                                         observation.point_id, t.target_pose, t.pnt_pos,
                                         observation.image_loc_x,
                                         observation.image_loc_y)
    IN  [reg |-> t.reg, items |-> addObservationPoint(st.items, temp_ODP)]

\* lines 114-135: the loop over the observations.  Each iteration works on the
\* value s the iterations before it left behind.
RECURSIVE CollectObservations(_, _, _, _, _)
CollectObservations(st, heap, cb, scene_id, observations) ==
    IF observations = << >> THEN st
    ELSE CHOOSE out \in
             { CollectObservations(CollectObservation(s, heap, cb, scene_id,
                                                      Head(observations)),
                                   heap, cb, scene_id, Tail(observations)) : s \in {st} } :
             TRUE

\* lines 93-135 for one camera whose capture is complete
CollectCamera(reg, heap, items, camera, scene_id, ob) ==
    LET c == RegisterCamera(reg, camera, scene_id)
    IN  CollectObservations([reg |-> c.reg, items |-> items], heap,
                            [ camera_name |-> camera.camera_name_,
                              intrinsics |-> c.intrinsics, extrinsics |-> c.extrinsics ],
                            scene_id, getObservations(ob))

\* runObservations() as a function of the captures: captured[i] is what
\* getObservations() returns in scene i, a sequence of records with a camera
\* name and its observations.

ObservationsOf(entries, camera_name) ==
    LET found == SelectSeq(entries, LAMBDA e : e.camera = camera_name)
    IN  IF found = << >> THEN << >> ELSE Head(found).observations

\* lines 86-136: the cameras of one scene
RECURSIVE PassCameras(_, _, _, _, _)
PassCameras(st, heap, cameras, scene_id, entries) ==
    IF cameras = << >> THEN st
    ELSE PassCameras(CollectCamera(st.reg, heap, st.items, Head(cameras), scene_id,
                                   [NewObserver EXCEPT
                                       !.status = "done",
                                       !.observations =
                                           ObservationsOf(entries,
                                                          Head(cameras).camera_name_)]),
                     heap, Tail(cameras), scene_id, entries)

\* lines 46-137: the scenes in the order of the list
RECURSIVE PassScenes(_, _, _, _)
PassScenes(st, heap, scenes, captured) ==
    IF scenes = << >> THEN st
    ELSE PassScenes(PassCameras(st, heap, Head(scenes).cameras_in_scene_,
                                Head(scenes).scene_id, Head(captured)),
                    heap, Tail(scenes), Tail(captured))

\* lines 42-137: the registry and the list after a pass without a hung capture
PassOver(reg, heap, items, scenes, captured) ==
    PassScenes([reg |-> clearCamerasTargets(reg), items |-> items], heap, scenes, captured)

----------------------------------------------------------------------------
(* runOptimization()                                                       *)

\* the residual that hands the solver the intrinsics block as a third variable
ResidualBlockWithIntrinsics(items, i) ==
    [ odp |-> i,
      image_x |-> items[i].image_x_, image_y |-> items[i].image_y_,
      intrinsics_read |-> items[i].camera_intrinsics_,
      point_read |-> items[i].point_position_,
      blocks |-> << items[i].camera_extrinsics_, items[i].camera_intrinsics_,
                    items[i].target_pose_ >> ]

\* lines 446-472: the residual built from the list entry at position i.  The
\* constants of the cost function are read through the entry's intrinsics and
\* point-position handles; the two parameter blocks are its extrinsics and
\* target-pose handles.  odp records the entry the residual was built from.
ResidualBlock(items, i) ==
    [ odp |-> i,
      image_x |-> items[i].image_x_, image_y |-> items[i].image_y_,
      intrinsics_read |-> items[i].camera_intrinsics_,
      point_read |-> items[i].point_position_,
      blocks |-> << items[i].camera_extrinsics_, items[i].target_pose_ >> ]

\* lines 424-474: the inner loop adds one residual per list entry
InnerLoop(items) == [i \in 1..Len(items) |-> ResidualBlock(items, i)]

\* the outer loop when its body ran for every entry
OuterLoopToTheEnd(items) == Flatten([i \in 1..Len(items) |-> InnerLoop(items)])

\* lines 420-499: the body of the outer loop ends with `return true` (line 498),
\* so it runs at most once, for the first entry
OuterLoop(items) == IF items = << >> THEN << >> ELSE InnerLoop(items)

----------------------------------------------------------------------------
(* The job                                                                 *)

IdleCur == [scene |-> 0, camera |-> 0, polls |-> 0, caller |-> "none"]

Init ==
    /\ files \in FileSets
    /\ ceres_blocks_ = EmptyBlocks(0)
    /\ target_objs = << >>
    /\ scene_list_ = << >>
    /\ observation_data_point_list = << >>
    /\ problem_ = << >>
    /\ observer = [c \in CameraNames |-> NoObserver]
    /\ pc = "idle"
    /\ cur = IdleCur
    /\ calls = [load |-> 0, runObservations |-> 0, runOptimization |-> 0,
                Solve |-> 0, job_state |-> "Unloaded"]
    /\ last = [call |-> "none", ret |-> "none", before |-> "Unloaded", items_before |-> 0,
               residuals_before |-> 0, seen |-> << >>, returned |-> << >>]

\* The life cycle Unloaded -> Loaded -> ObservationsCollected -> Solved that the
\* calls made so far have taken the job through.  The class keeps no such
\* member: job_state records it for the calls that came in order.
AfterObservations(state) == IF state = "Unloaded" THEN state ELSE "ObservationsCollected"
AfterOptimization(state) ==
    IF state \in {"ObservationsCollected", "Solved"} THEN "Solved" ELSE state

\* what line 112 retrieved from the camera in scene number s of the list;
\* last.seen keeps these for the pass that is running or has just run
Seen(s, camera_name, observations) ==
    [scene |-> s, camera |-> camera_name, observations |-> observations]

Completed(call, ret) ==
    [ call |-> call, ret |-> ret, before |-> calls.job_state,
      items_before |-> Len(observation_data_point_list),
      residuals_before |-> Len(problem_),
      seen |-> << >>, returned |-> << >> ]

\* the calls of load(), runObservations() and runOptimization() made so far
CallsMade == calls.load + calls.runObservations + calls.runOptimization

\* load(), lines 141-413.  When it ends at line 397 the process is gone.
CallLoad ==
    /\ pc = "idle"
    /\ calls.load < MaxLoads
    /\ CallsMade < MaxCalls
    /\ \E pick \in {"first", "last"} :
         LET r == Load(files, ceres_blocks_, target_objs, scene_list_, pick)
         IN  /\ ceres_blocks_' = r.reg
             /\ target_objs' = r.heap
             /\ scene_list_' = r.scenes
             /\ last' = Completed("load", r.ret)
             /\ pc' = IF r.ret = "crash" THEN "crashed" ELSE "idle"
             /\ calls' = [calls EXCEPT !.load = @ + 1,
                             !.job_state = IF r.ret = "true" THEN "Loaded" ELSE @]
    /\ observer' = LoadObservers(files, ceres_blocks_, observer)
    /\ UNCHANGED << files, observation_data_point_list, problem_, cur >>

\* where runObservations() goes on with scene number k of the list
ScenePc(k) == IF k <= Len(scene_list_) THEN "clear" ELSE "return"

\* the entry of runObservations() without the call of line 42
EnterRunObservationsNoClear(who) ==
    /\ ceres_blocks_' = ceres_blocks_
    /\ pc' = ScenePc(1)
    /\ cur' = [scene |-> 1, camera |-> 1, polls |-> 0, caller |-> who]
    /\ last' = [Completed(who, "running") EXCEPT
                   !.items_before = Len(observation_data_point_list)]
    /\ UNCHANGED << files, target_objs, scene_list_, observation_data_point_list,
                    problem_, observer >>

\* line 42, entered from the caller who: "runObservations" or "run"
EnterRunObservations(who) ==
    /\ ceres_blocks_' = clearCamerasTargets(ceres_blocks_)
    /\ pc' = ScenePc(1)
    /\ cur' = [scene |-> 1, camera |-> 1, polls |-> 0, caller |-> who]
    /\ last' = [Completed(who, "running") EXCEPT
                   !.items_before = Len(observation_data_point_list)]
    /\ UNCHANGED << files, target_objs, scene_list_, observation_data_point_list,
                    problem_, observer >>

\* runObservations() is called
CallRunObservations ==
    /\ pc = "idle"
    /\ calls.runObservations < MaxPasses
    /\ CallsMade < MaxCalls
    /\ calls' = [calls EXCEPT !.runObservations = @ + 1]
    /\ EnterRunObservations("runObservations")

\* run() is called, lines 32-34
CallRun ==
    /\ pc = "idle"
    /\ calls.runObservations < MaxPasses
    /\ calls.runOptimization < MaxOptimizations
    /\ CallsMade + 1 < MaxCalls
    /\ calls' = [calls EXCEPT !.runObservations = @ + 1]
    /\ EnterRunObservations("run")

current_scene == scene_list_[cur.scene]

\* lines 46-58.  A camera without observer ends the process at line 56, after
\* the cameras before it were cleared.
ObsClear ==
    /\ pc = "clear"
    /\ LET cams == current_scene.cameras_in_scene_
           none == Unobserved(observer, cams)
       IN  /\ observer' = ClearObservers(observer, Before(cams, none))
           /\ pc' = IF none = {} THEN "add" ELSE "crashed"
    /\ UNCHANGED << files, ceres_blocks_, target_objs, scene_list_,
                    observation_data_point_list, problem_, cur, calls, last >>

\* lines 61-70.  A command without target ends the process at line 66, after
\* the commands before it were passed on.
ObsAddTargets ==
    /\ pc = "add"
    /\ LET cmds == current_scene.observation_command_list_
           none == Untargeted(cmds)
       IN  /\ observer' = AddTargets(observer, Before(cmds, none))
           /\ pc' = IF none = {} THEN "trigger" ELSE "crashed"
    /\ UNCHANGED << files, ceres_blocks_, target_objs, scene_list_,
                    observation_data_point_list, problem_, cur, calls, last >>

\* lines 72-75; then the loop of line 86 starts with the first camera, or, in a
\* scene without cameras, the next scene follows
ObsTrigger ==
    /\ pc = "trigger"
    /\ observer' = TriggerCameras(observer, current_scene.cameras_in_scene_)
    /\ IF current_scene.cameras_in_scene_ = << >>
       THEN /\ pc' = ScenePc(cur.scene + 1)
            /\ cur' = [cur EXCEPT !.scene = @ + 1]
       ELSE /\ pc' = "wait"
            /\ cur' = [cur EXCEPT !.camera = 1]
    /\ UNCHANGED << files, ceres_blocks_, target_objs, scene_list_,
                    observation_data_point_list, problem_, calls, last >>

camera == current_scene.cameras_in_scene_[cur.camera]

\* lines 90-91: observationsDone() was false, the empty loop body runs
ObsPoll ==
    /\ pc = "wait"
    /\ ~observationsDone(observer[camera.camera_name_])
    /\ cur' = [cur EXCEPT !.polls = 1 - @]
    /\ UNCHANGED << files, ceres_blocks_, target_objs, scene_list_,
                    observation_data_point_list, problem_, observer, pc, calls, last >>

\* the step of lines 93-136 taken without the wait of lines 90-91
ObsCollectWithoutWait ==
    /\ pc = "wait"
    /\ LET r == CollectCamera(ceres_blocks_, target_objs, observation_data_point_list,
                              camera, current_scene.scene_id,
                              observer[camera.camera_name_])
       IN  /\ ceres_blocks_' = r.reg
           /\ observation_data_point_list' = r.items
    /\ last' = [last EXCEPT !.seen = Append(@, Seen(cur.scene, camera.camera_name_,
                                    getObservations(observer[camera.camera_name_])))]
    /\ IF cur.camera < Len(current_scene.cameras_in_scene_)
       THEN /\ cur' = [cur EXCEPT !.camera = @ + 1, !.polls = 0]
            /\ pc' = "wait"
       ELSE /\ cur' = [cur EXCEPT !.scene = @ + 1, !.camera = 1, !.polls = 0]
            /\ pc' = ScenePc(cur.scene + 1)
    /\ UNCHANGED << files, target_objs, scene_list_, problem_, observer, calls >>

\* lines 90-136: observationsDone() was true; the camera's observations become
\* data points, and the next camera or the next scene follows
ObsCollect ==
    /\ pc = "wait"
    /\ observationsDone(observer[camera.camera_name_])
    /\ LET r == CollectCamera(ceres_blocks_, target_objs, observation_data_point_list,
                              camera, current_scene.scene_id,
                              observer[camera.camera_name_])
       IN  /\ ceres_blocks_' = r.reg
           /\ observation_data_point_list' = r.items
    /\ last' = [last EXCEPT !.seen = Append(@, Seen(cur.scene, camera.camera_name_,
                                    getObservations(observer[camera.camera_name_])))]
    /\ IF cur.camera < Len(current_scene.cameras_in_scene_)
       THEN /\ cur' = [cur EXCEPT !.camera = @ + 1, !.polls = 0]
            /\ pc' = "wait"
       ELSE /\ cur' = [cur EXCEPT !.scene = @ + 1, !.camera = 1, !.polls = 0]
            /\ pc' = ScenePc(cur.scene + 1)
    /\ UNCHANGED << files, target_objs, scene_list_, problem_, observer, calls >>

\* line 138, back in the caller of runObservations()
ObsReturn ==
    /\ pc = "return"
    /\ cur.caller = "runObservations"
    /\ pc' = "idle"
    /\ cur' = IdleCur
    /\ last' = [last EXCEPT !.ret = "true"]
    /\ calls' = [calls EXCEPT !.job_state = AfterObservations(@)]
    /\ UNCHANGED << files, ceres_blocks_, target_objs, scene_list_,
                    observation_data_point_list, problem_, observer >>

\* runOptimization(), lines 416-501.  The call of ceres::Solve (line 495) is
\* commented out, so calls.Solve, the number of solver runs, stays as it is.
CallRunOptimization ==
    /\ pc = "idle"
    /\ calls.runOptimization < MaxOptimizations
    /\ CallsMade < MaxCalls
    /\ problem_' = problem_ \o OuterLoop(observation_data_point_list)
    /\ last' = Completed("runOptimization", "true")
    /\ calls' = [calls EXCEPT !.runOptimization = @ + 1,
                                !.job_state = AfterOptimization(@)]
    /\ UNCHANGED << files, ceres_blocks_, target_objs, scene_list_,
                    observation_data_point_list, observer, pc, cur >>

\* lines 34-36: runObservations() has returned into run(), which calls
\* runOptimization() and then flows off its end without a return statement.
\* What follows is undefined: the caller reads an indeterminate bool, or
\* control runs past the end of run() and the process ends.  last.returned
\* keeps what the two calls returned (lines 138 and 498/500).
RunOptimizeAndReturn ==
    /\ pc = "return"
    /\ cur.caller = "run"
    /\ problem_' = problem_ \o OuterLoop(observation_data_point_list)
    /\ \E ret \in {"true", "false", "crash"} :
         /\ last' = [last EXCEPT !.ret = ret, !.returned = << "true", "true" >>]
         /\ pc' = IF ret = "crash" THEN "crashed" ELSE "idle"
    /\ calls' = [calls EXCEPT !.runOptimization = @ + 1,
                                !.job_state = AfterOptimization(AfterObservations(@))]
    /\ cur' = IdleCur
    /\ UNCHANGED << files, ceres_blocks_, target_objs, scene_list_,
                    observation_data_point_list, observer >>

\* the capture interface: a triggered capture completes with some observations
CaptureCompletes(c) ==
    /\ pc # "crashed"
    /\ observer[c].status = "capturing"
    /\ \E obs \in ObsChoices(observer[c], target_objs) :
         observer' = [observer EXCEPT ![c].status = "done", ![c].observations = obs,
                                      ![c].recorded = << calls.runObservations, cur.scene >>]
    /\ UNCHANGED << files, ceres_blocks_, target_objs, scene_list_,
                    observation_data_point_list, problem_, pc, cur, calls, last >>

\* the capture interface: a triggered capture will never complete
CaptureHangs(c) ==
    /\ pc # "crashed"
    /\ observer[c].status = "capturing"
    /\ observer' = [observer EXCEPT ![c].status = "hung"]
    /\ UNCHANGED << files, ceres_blocks_, target_objs, scene_list_,
                    observation_data_point_list, problem_, pc, cur, calls, last >>

\* the steps of the member function that is running
JobStep ==
    \/ ObsClear
    \/ ObsAddTargets
    \/ ObsTrigger
    \/ ObsPoll
    \/ ObsCollect
    \/ ObsReturn
    \/ RunOptimizeAndReturn

Next ==
    \/ CallLoad
    \/ CallRunObservations
    \/ CallRun
    \/ CallRunOptimization
    \/ JobStep
    \/ \E c \in CameraNames : CaptureCompletes(c)
    \/ \E c \in CameraNames : CaptureHangs(c)

Spec == Init /\ [][Next]_vars

\* the running member function always takes its next step
FairSpec == Spec /\ WF_vars(JobStep)

----------------------------------------------------------------------------
(* Properties                                                              *)

Items == observation_data_point_list

\* the residuals of the problem that were built from list entry i
ResidualsOf(i) == { k \in 1..Len(problem_) : problem_[k].odp = i }

\* runOptimization() has just run, by itself or at the end of run()
OptimizationRan ==
    /\ pc = "idle"
    /\ \/ last.call = "runOptimization"
       \/ last.call = "run" /\ last.ret # "running"

\* runObservations() is running or has just run, by itself or inside run();
\* the data points of this pass are the list entries after last.items_before
InPass == last.call \in {"runObservations", "run"}
PassItems == IF InPass THEN (last.items_before + 1)..Len(Items) ELSE {}

\* the four handles of a data point
HandlesOf(odp) ==
    { odp.camera_intrinsics_, odp.camera_extrinsics_, odp.target_pose_,
      odp.point_position_ }

Live(h) == h \in RegistryBlocks(ceres_blocks_, target_objs)

\* C1: one call of runOptimization() on a problem without residuals adds
\* exactly one residual per entry of the data point list, whatever its length:
\* afterwards the problem holds as many residuals as the list has entries and
\* each entry has exactly one residual built from it.
C1_OneResidualPerEntry ==
    (OptimizationRan /\ last.residuals_before = 0) =>
        /\ Len(problem_) = Len(Items)
        /\ \A i \in 1..Len(Items) : Cardinality(ResidualsOf(i)) = 1

\* C1 witness: runOptimization() ran on an empty problem with a list of at
\* least two entries.
C1_Witness ==
    /\ OptimizationRan
    /\ last.call = "runOptimization"
    /\ last.residuals_before = 0
    /\ Len(Items) >= 2
    /\ Len(problem_) = Len(Items)

\* C2: over any sequence of run(), runObservations() and runOptimization()
\* calls, the problem never holds two residuals built from the same data point.
C2_ConsumedOnce ==
    \A i \in 1..Len(Items) : Cardinality(ResidualsOf(i)) <= 1

\* C3: after every call of runObservations() the list holds the data points of
\* that pass only: every entry was built from the registry as rebuilt by this
\* pass, none from the registry of an earlier pass.
C3_ListRebuilt ==
    (pc = "idle" /\ last.call = "runObservations" /\ last.ret = "true") =>
        \A i \in 1..Len(Items) : Items[i].camera_intrinsics_.gen = ceres_blocks_.gen

\* C4: in every reachable state the four handles of every data point of the
\* list, and the handles every residual of the problem was built from, are
\* blocks the registry holds.
C4_HandlesLive ==
    /\ \A i \in 1..Len(Items) : \A h \in HandlesOf(Items[i]) : Live(h)
    /\ \A k \in 1..Len(problem_) :
          /\ \A h \in Range(problem_[k].blocks) : Live(h)
          /\ Live(problem_[k].intrinsics_read)
          /\ Live(problem_[k].point_read)

\* a member function of the job is running
Busy == pc \notin {"idle", "crashed"}

\* C5: runObservations() never spins indefinitely: whatever the capture
\* interface does, a member function that is running eventually is not
\* running any more.
C5_Returns == Busy ~> ~Busy

\* the scene numbers of the job documents
SceneNumbers == {1, 2}

\* runObservations() waits, in scene number s of the list, for a camera whose
\* capture will never complete
WaitsForHung(s) ==
    /\ pc = "wait"
    /\ cur.scene = s
    /\ observer[camera.camera_name_].status = "hung"

\* C6: when the capture of a camera of scene s never completes, the run gives
\* that scene up (reporting the timeout) and goes on with the scenes after it:
\* the wait in scene s ends, with no data point of scene s appended by it.
C6_TimeoutThenNextScene ==
    \A s \in SceneNumbers : WaitsForHung(s) ~> (pc # "wait" \/ cur.scene > s)

\* C7: a call out of the order Unloaded -> Loaded -> ObservationsCollected ->
\* Solved is rejected: runObservations() before a successful load(), and
\* runOptimization() before a completed runObservations(), never return success.
C7_OutOfOrderRejected ==
    /\ (last.call = "runObservations" /\ last.before = "Unloaded") => last.ret # "true"
    /\ (last.call = "runOptimization" /\ last.before \in {"Unloaded", "Loaded"})
          => last.ret # "true"

\* C8: whenever load() returns false the job is left as it was, Unloaded: the
\* registry and the scene list hold no camera, target or scene.
C8_FailedLoadLeavesNothing ==
    (last.call = "load" /\ last.ret = "false") =>
        /\ ceres_blocks_.static_cameras = << >>
        /\ ceres_blocks_.moving_cameras = << >>
        /\ ceres_blocks_.static_targets = << >>
        /\ ceres_blocks_.moving_targets = << >>
        /\ scene_list_ = << >>

\* the cameras the scenes refer to
SceneCameras == UNION { Range(scene_list_[i].cameras_in_scene_) : i \in 1..Len(scene_list_) }
StaticCamera(name) == \E c \in SceneCameras : c.camera_name_ = name /\ ~c.is_moving_

\* C9: two data points of one pass with the same camera name have the same
\* intrinsics handle, and have the same extrinsics handle if and only if the
\* camera is static or their scene ids are equal.
C9_CameraBlocksShared ==
    \A i, j \in PassItems :
        Items[i].camera_name_ = Items[j].camera_name_ =>
            /\ Items[i].camera_intrinsics_ = Items[j].camera_intrinsics_
            /\ (Items[i].camera_extrinsics_ = Items[j].camera_extrinsics_)
                  <=> (StaticCamera(Items[i].camera_name_)
                         \/ Items[i].scene_id_ = Items[j].scene_id_)

\* C9 witness: one pass produced data points of the static camera in two
\* scenes, with one extrinsics handle, and two data points of it in one scene.
C9_Witness ==
    /\ \E i, j \in PassItems :
          /\ Items[i].camera_name_ = "camA" /\ Items[j].camera_name_ = "camA"
          /\ Items[i].scene_id_ # Items[j].scene_id_
          /\ Items[i].camera_extrinsics_ = Items[j].camera_extrinsics_
    /\ \E i, j \in PassItems :
          /\ i # j
          /\ Items[i].camera_name_ = "camA" /\ Items[j].camera_name_ = "camA"
          /\ Items[i].scene_id_ = Items[j].scene_id_

\* the targets the observation commands refer to
SceneTargets ==
    UNION { { c.target : c \in Range(scene_list_[i].observation_command_list_) } :
              i \in 1..Len(scene_list_) }
StaticTarget(name) ==
    \E t \in SceneTargets : target_objs[t].target_name = name /\ ~target_objs[t].is_moving

\* C10: two data points of one pass with the same target name and point id
\* have the same point-position handle, and have the same target-pose handle
\* if and only if the target is static or their scene ids are equal.
C10_TargetBlocksShared ==
    \A i, j \in PassItems :
        (Items[i].target_name_ = Items[j].target_name_
           /\ Items[i].point_id_ = Items[j].point_id_) =>
            /\ Items[i].point_position_ = Items[j].point_position_
            /\ (Items[i].target_pose_ = Items[j].target_pose_)
                  <=> (StaticTarget(Items[i].target_name_)
                         \/ Items[i].scene_id_ = Items[j].scene_id_)


\* the raw observations of the pass in the order they were retrieved, each with
\* the scene (its number in the list) and the camera it was retrieved from
RECURSIVE RawOf(_)
RawOf(seen) ==
    IF seen = << >> THEN << >>
    ELSE [ k \in 1..Len(Head(seen).observations) |->
             [scene |-> Head(seen).scene, camera |-> Head(seen).camera,
              observation |-> Head(seen).observations[k]] ] \o RawOf(Tail(seen))

Raw == RawOf(last.seen)

\* the camera of that name among the cameras of scene number s
SceneCamera(s, name) ==
    CHOOSE c \in Range(scene_list_[s].cameras_in_scene_) : c.camera_name_ = name

KindOf(moving) == IF moving THEN "moving" ELSE "static"

\* the block the registry holds now under a key, NotFound if it holds none
Held(role, moving, name, scene_id, pt) ==
    LET h == Handle(role, KindOf(moving), name,
                    IF moving /\ role \in {"extrinsics", "pose"} THEN scene_id ELSE NoScene,
                    pt, ceres_blocks_.gen)
    IN  IF Live(h) THEN h ELSE NotFound

\* data point odp is the one that belongs to raw observation r
BoundTo(odp, r) ==
    LET scene_id == scene_list_[r.scene].scene_id
        cam == SceneCamera(r.scene, r.camera)
        targ == target_objs[r.observation.target]
    IN  /\ odp.scene_id_ = scene_id
        /\ odp.camera_name_ = r.camera
        /\ odp.target_name_ = targ.target_name
        /\ odp.point_id_ = r.observation.point_id
        /\ odp.image_x_ = r.observation.image_loc_x
        /\ odp.image_y_ = r.observation.image_loc_y
        /\ odp.camera_intrinsics_ # NotFound
        /\ odp.camera_intrinsics_ =
               Held("intrinsics", cam.is_moving_, r.camera, scene_id, NoPoint)
        /\ odp.camera_extrinsics_ # NotFound
        /\ odp.camera_extrinsics_ =
               Held("extrinsics", cam.is_moving_, r.camera, scene_id, NoPoint)
        /\ odp.target_pose_ # NotFound
        /\ odp.target_pose_ =
               Held("pose", targ.is_moving, targ.target_name, scene_id, NoPoint)
        /\ odp.point_position_ # NotFound
        /\ odp.point_position_ =
               Held("point", targ.is_moving, targ.target_name, scene_id,
                    r.observation.point_id)

\* C11: the data points appended by runObservations() are, in order, the raw
\* observations it retrieved, and each one carries the id of the scene that was
\* being processed, the name of the camera the observation was retrieved from,
\* the name of the observed target, the observed point id and pixel, and the
\* handles the registry holds for that camera's intrinsics, for its extrinsics
\* in this scene, for the target's pose in this scene and for the observed point.
C11_DataPointBound ==
    InPass =>
        /\ Cardinality(PassItems) = Len(Raw)
        /\ \A k \in 1..Len(Raw) : BoundTo(Items[last.items_before + k], Raw[k])

\* a second pass has appended a data point of the static camera and the moving
\* target in scene 2, after a data point of scene 1
C11_Witness ==
    /\ InPass
    /\ calls.runObservations = 2
    /\ \E i, j \in PassItems :
          /\ i < j
          /\ Items[i].scene_id_ = 1
          /\ Items[j].scene_id_ = 2
          /\ Items[j].camera_name_ = "camA"
          /\ Items[j].camera_extrinsics_.kind = "static"
          /\ Items[j].target_pose_.kind = "moving"
          /\ Items[j].point_id_ = 1

\* the first pass after a successful load() has returned
FirstPassDone ==
    /\ pc = "idle"
    /\ last.call \in {"runObservations", "run"}
    /\ last.ret # "running"
    /\ last.before = "Loaded"
    /\ last.items_before = 0

\* the blocks of the cameras whose observations the pass retrieved
SeenCameraBlocks ==
    UNION { LET cam == SceneCamera(e.scene, e.camera)
                scene_id == scene_list_[e.scene].scene_id
            IN  { Handle("intrinsics", KindOf(cam.is_moving_), e.camera, NoScene, NoPoint,
                         ceres_blocks_.gen),
                  Handle("extrinsics", KindOf(cam.is_moving_), e.camera,
                         IF cam.is_moving_ THEN scene_id ELSE NoScene, NoPoint,
                         ceres_blocks_.gen) } : e \in Range(last.seen) }

\* the blocks of the targets the pass observed: the pose and every point
SeenTargetBlocks ==
    UNION { LET targ == target_objs[r.observation.target]
                scene_id == scene_list_[r.scene].scene_id
            IN  { Handle("pose", KindOf(targ.is_moving), targ.target_name,
                         IF targ.is_moving THEN scene_id ELSE NoScene, NoPoint,
                         ceres_blocks_.gen) }
                \cup { Handle("point", KindOf(targ.is_moving), targ.target_name, NoScene, p,
                              ceres_blocks_.gen) : p \in 0..(Len(targ.pts) - 1) }
            : r \in Range(Raw) }

BlocksOfRole(role) ==
    { h \in RegistryBlocks(ceres_blocks_, target_objs) : h.role = role }

\* the pass retrieved the observations of every camera of every scene
SawEveryCamera ==
    \A i \in 1..Len(scene_list_) : \A c \in Range(scene_list_[i].cameras_in_scene_) :
        \E e \in Range(last.seen) : e.scene = i /\ e.camera = c.camera_name_

\* C12: after load() and one runObservations() pass the registry holds exactly
\* the blocks of the cameras and targets seen in the pass (intrinsics per camera
\* name, extrinsics per static camera or per moving camera and scene, pose per
\* static target or per moving target and scene, one point block per point of
\* each seen target) and the list has one data point per raw observation; with
\* one static camera, one static target of four points and one scene observing
\* all four it holds 1 intrinsics, 1 extrinsics, 1 pose and 4 point blocks and
\* the list has 4 data points.
C12_BlocksOfThePass ==
    FirstPassDone =>
        /\ SawEveryCamera
        /\ RegistryBlocks(ceres_blocks_, target_objs) = SeenCameraBlocks \cup SeenTargetBlocks
        /\ Len(Items) = Len(Raw)
        /\ (files = FourPointFiles /\ Len(Raw) = 4) =>
              /\ Cardinality(BlocksOfRole("intrinsics")) = 1
              /\ Cardinality(BlocksOfRole("extrinsics")) = 1
              /\ Cardinality(BlocksOfRole("pose")) = 1
              /\ Cardinality(BlocksOfRole("point")) = 4
              /\ Len(Items) = 4

\* the end-to-end scenario: all four points of the target were observed
C12_Witness ==
    /\ FirstPassDone
    /\ files = FourPointFiles
    /\ Len(Raw) = 4
    /\ { Raw[k].observation.point_id : k \in 1..4 } = 0..3
    /\ Cardinality(BlocksOfRole("point")) = 4

\* C13: every runOptimization() runs the external solver exactly once, so after
\* a call the solver has run as often as runOptimization(), and a call that
\* returned true has run it.
C13_SolverRunOnce ==
    OptimizationRan =>
        /\ calls.Solve = calls.runOptimization
        /\ (last.call = "runOptimization" /\ last.ret = "true") => calls.Solve >= 1

\* C16: run() returns true if and only if runObservations() and
\* runOptimization() both returned true.
C16_RunReturnsConjunction ==
    (pc = "idle" /\ last.call = "run") =>
        (last.ret = "true" <=> \A k \in 1..Len(last.returned) : last.returned[k] = "true")

\* no capture of the pass reported a point of a target twice
NoRepeats ==
    \A e \in Range(last.seen) : \A i, j \in 1..Len(e.observations) :
        (i # j) => \/ e.observations[i].target # e.observations[j].target
                   \/ e.observations[i].point_id # e.observations[j].point_id

KeyOf(odp) == << odp.camera_name_, odp.target_name_, odp.scene_id_, odp.point_id_ >>

\* C14: after load() and one pass whose captures reported each point of each
\* target at most once, no two data points of the list have the same camera
\* name, target name, scene id and point id.
C14_OneDataPointPerKey ==
    (FirstPassDone /\ NoRepeats) =>
        \A i, j \in 1..Len(Items) : (i # j) => KeyOf(Items[i]) # KeyOf(Items[j])

Reverse(s) == [i \in 1..Len(s) |-> s[Len(s) + 1 - i]]

\* what the pass retrieved in each scene of the list
Captured ==
    [i \in 1..Len(scene_list_) |-> SelectSeq(last.seen, LAMBDA e : e.scene = i)]

\* a pass has returned
PassDone ==
    /\ pc = "idle"
    /\ last.call \in {"runObservations", "run"}
    /\ last.ret # "running"

\* the keys (role, name, scene) of the blocks a registry holds
BlockKeys(reg) == { << h.role, h.name, h.scene >> : h \in RegistryBlocks(reg, target_objs) }

\* the registry after a pass over the scene list in the order of the list, and
\* after a pass over the reversed list with the same captures per scene and camera
ForwardPass ==
    PassOver(EmptyBlocks(ceres_blocks_.gen - 1), target_objs, << >>, scene_list_,
             Captured).reg
ReversedPass ==
    PassOver(EmptyBlocks(ceres_blocks_.gen - 1), target_objs, << >>, Reverse(scene_list_),
             Reverse(Captured)).reg

\* C15: a pass over the reversed scene list, with the same observations per
\* scene and camera, ends with the same set of registered block keys (role,
\* name, scene) as the pass over the list, which is the set the registry holds
\* when the pass has returned.
C15_SceneOrderIndependent ==
    PassDone =>
        /\ RegistryBlocks(ForwardPass, target_objs)
              = RegistryBlocks(ceres_blocks_, target_objs)
        /\ BlockKeys(ReversedPass) = BlockKeys(ForwardPass)
        /\ RegistryBlocks(ReversedPass, target_objs) = RegistryBlocks(ForwardPass, target_objs)

\* a pass over two scenes has seen the moving target in both and has its pose
\* blocks of both scenes
C15_Witness ==
    /\ PassDone
    /\ Len(scene_list_) = 2
    /\ \A i \in 1..2 : \E r \in Range(Raw) :
          r.scene = i /\ target_objs[r.observation.target].is_moving
    /\ Cardinality({ h \in BlocksOfRole("pose") : h.kind = "moving" }) = 2

\* C17: every residual of the problem binds exactly two blocks as solver
\* variables, the camera-extrinsics handle and the target-pose handle of the
\* data point it was built from; the intrinsics and the point position of that
\* data point are read into the cost function as constants and are not among
\* the bound blocks.
C17_TwoBlocksPerResidual ==
    \A k \in 1..Len(problem_) :
        LET odp == Items[problem_[k].odp]
        IN  /\ Len(problem_[k].blocks) = 2
            /\ problem_[k].blocks[1] = odp.camera_extrinsics_
            /\ problem_[k].blocks[2] = odp.target_pose_
            /\ problem_[k].intrinsics_read = odp.camera_intrinsics_
            /\ problem_[k].point_read = odp.point_position_
            /\ odp.camera_intrinsics_ \notin Range(problem_[k].blocks)
            /\ odp.point_position_ \notin Range(problem_[k].blocks)
            /\ problem_[k].image_x = odp.image_x_
            /\ problem_[k].image_y = odp.image_y_

\* the problem holds residuals of two data points with different extrinsics
\* and different target-pose blocks
C17_Witness ==
    \E k, l \in 1..Len(problem_) :
        /\ problem_[k].odp # problem_[l].odp
        /\ problem_[k].blocks[1] # problem_[l].blocks[1]
        /\ problem_[k].blocks[2] # problem_[l].blocks[2]
        /\ problem_[k].blocks[1] = Items[problem_[k].odp].camera_extrinsics_

\* C18 as stated: one runOptimization() on a list of N entries adds N * N
\* residuals to the problem.
C18_Squared ==
    OptimizationRan =>
        Len(problem_) - last.residuals_before = Len(Items) * Len(Items)

\* C18: the body of the outer loop returns at its end, so the inner loop is
\* executed once whatever the length of the list, and one runOptimization() on
\* a list of N entries adds N residuals to the residuals the problem held.
C18_InnerLoopOnce ==
    OptimizationRan =>
        Len(problem_) - last.residuals_before = Len(Items)

\* runOptimization() has added three residuals for a list of three entries to
\* a problem that held residuals already
C18_Witness ==
    /\ OptimizationRan
    /\ last.residuals_before > 0
    /\ Len(Items) = 3
    /\ Len(problem_) = last.residuals_before + 3

\* the names of the cameras of the scene that is being processed
ActiveCameras == { c.camera_name_ : c \in Range(current_scene.cameras_in_scene_) }

\* the targets the commands of the scene give camera c to look for
CommandedTargets(c) ==
    SelectSeq(current_scene.observation_command_list_,
              LAMBDA cmd : cmd.camera.camera_name_ = c)

\* when the first addTarget() of the scene is due, every active camera has been
\* cleared
ClearedBeforeAdd ==
    (pc = "add") =>
        \A c \in ActiveCameras :
            observer[c].targets = << >> /\ observer[c].observations = << >>

\* when the first triggerCamera() of the scene is due, every command's target
\* has been added and no active camera is capturing
AddedBeforeTrigger ==
    (pc = "trigger") =>
        \A c \in ActiveCameras :
            /\ Len(observer[c].targets) = Len(CommandedTargets(c))
            /\ \A k \in 1..Len(observer[c].targets) :
                  observer[c].targets[k].target = CommandedTargets(c)[k].target
            /\ observer[c].status # "capturing"

\* while the job waits for a camera, every active camera that has not been
\* collected yet has been triggered with the scene's targets
TriggeredBeforeWait ==
    (pc = "wait") =>
        \A k \in cur.camera..Len(current_scene.cameras_in_scene_) :
            LET c == current_scene.cameras_in_scene_[k].camera_name_
            IN  /\ observer[c].status \in {"capturing", "done", "hung"}
                /\ Len(observer[c].targets) = Len(CommandedTargets(c))

\* a step that registers a camera, retrieves its observations or appends data
\* points is taken for the camera the job waits for, whose observationsDone()
\* is true
CollectedAfterDone ==
    (\/ ceres_blocks_' # ceres_blocks_ /\ pc # "idle"
     \/ observation_data_point_list' # observation_data_point_list
     \/ last'.seen # last.seen /\ pc # "idle")
       => /\ pc = "wait"
          /\ observationsDone(observer[camera.camera_name_])
          /\ last'.seen = Append(last.seen,
                                 Seen(cur.scene, camera.camera_name_,
                                      observer[camera.camera_name_].observations))

\* C19: within each scene every active camera is cleared before any addTarget(),
\* every addTarget() precedes every triggerCamera(), all active cameras are
\* triggered before the first completion wait, and a camera is registered and
\* its observations are retrieved only after it reported observationsDone().
C19_SceneProtocolOrder ==
    [][ /\ CollectedAfterDone
        /\ ClearedBeforeAdd'
        /\ AddedBeforeTrigger'
        /\ TriggeredBeforeWait' ]_vars

\* in a scene with two cameras the first has been collected and the job waits
\* for the second, which was triggered with its target and is done
C19_Witness ==
    /\ pc = "wait"
    /\ cur.camera = 2
    /\ Len(current_scene.cameras_in_scene_) = 2
    /\ \E e \in Range(last.seen) :
          e.scene = cur.scene /\ e.camera = current_scene.cameras_in_scene_[1].camera_name_
    /\ observer[camera.camera_name_].status = "done"
    /\ observer[camera.camera_name_].targets # << >>

\* every observation the pass retrieved names a point of its target
PointsOfTheirTargets ==
    \A r \in Range(Raw) :
        r.observation.point_id \in 0..(Len(target_objs[r.observation.target].pts) - 1)

\* the registry holds the two blocks of every camera the pass has collected:
\* the add call for the camera and the scene came before the lookups
CameraAddsPrecede ==
    \A e \in Range(last.seen) :
        LET cam == SceneCamera(e.scene, e.camera)
            scene_id == scene_list_[e.scene].scene_id
        IN  /\ Held("intrinsics", cam.is_moving_, e.camera, scene_id, NoPoint) # NotFound
            /\ Held("extrinsics", cam.is_moving_, e.camera, scene_id, NoPoint) # NotFound

\* C20: in a pass of runObservations() whose observations name points of their
\* targets, every lookup in the registry comes after the add call for the same
\* role, name and scene id, made in this pass after clearCamerasTargets(): no
\* handle a lookup returned is NotFound, and each is a handle issued since the
\* clear of this pass.
C20_AddBeforeLookup ==
    (InPass /\ PointsOfTheirTargets) =>
        /\ CameraAddsPrecede
        /\ \A i \in PassItems : \A h \in HandlesOf(Items[i]) :
              h # NotFound /\ h.gen = ceres_blocks_.gen

\* a second pass, after the clear, has looked up the blocks of the static
\* camera and the moving target in scene 2
C20_Witness ==
    /\ InPass
    /\ calls.runObservations = 2
    /\ ceres_blocks_.gen = 2
    /\ \E i \in PassItems :
          /\ Items[i].scene_id_ = 2
          /\ Items[i].camera_extrinsics_ =
                Handle("extrinsics", "static", "camA", NoScene, NoPoint, 2)
          /\ Items[i].target_pose_.kind = "moving"
          /\ Items[i].target_pose_.scene = 2

\* the targets the observer of camera c holds, in the order they were added
TargetsOf(c) == [k \in 1..Len(observer[c].targets) |-> observer[c].targets[k].target]

\* the targets of the commands of the scene for camera c, in the order of the list
CommandedOf(c) == [k \in 1..Len(CommandedTargets(c)) |-> CommandedTargets(c)[k].target]

\* once the cameras of the scene are triggered, each one that is still to be
\* collected holds exactly the targets of this scene's commands for it
TriggeredWithSceneTargets ==
    (pc = "wait") =>
        \A k \in cur.camera..Len(current_scene.cameras_in_scene_) :
            LET c == current_scene.cameras_in_scene_[k].camera_name_
            IN  TargetsOf(c) = CommandedOf(c)

\* the observations the job reads for a camera were recorded in this pass and
\* scene, of targets this scene's commands gave the camera
ReadsThisScene ==
    (last'.seen # last.seen /\ pc = "wait") =>
        LET c == camera.camera_name_
        IN  /\ observer[c].recorded = << calls.runObservations, cur.scene >>
            /\ \A k \in 1..Len(observer[c].observations) :
                  observer[c].observations[k].target \in Range(CommandedOf(c))

\* C21: capture state does not leak across scenes: when a camera is triggered in
\* a scene its capture interface holds exactly the targets of that scene's
\* observation commands for it, and the observations read for it in the scene
\* were all recorded in that scene, none in an earlier one.
C21_NoLeakAcrossScenes ==
    [][ ReadsThisScene /\ TriggeredWithSceneTargets' ]_vars

\* a camera that was active and collected in scene 1 has been triggered in
\* scene 2 and its capture of scene 2 is complete
C21_Witness ==
    /\ pc = "wait"
    /\ cur.scene = 2
    /\ \E e \in Range(last.seen) :
          e.scene = 1 /\ e.camera = camera.camera_name_ /\ e.observations # << >>
    /\ observer[camera.camera_name_].status = "done"
    /\ observer[camera.camera_name_].recorded = << calls.runObservations, 2 >>
    /\ observer[camera.camera_name_].observations # << >>

\* load() has just returned true
LoadDone == pc = "idle" /\ last.call = "load" /\ last.ret = "true"

\* the Target the i-th addStaticTarget() call of load() receives, as it is at
\* the call, and the same for addMovingTarget()
HandedStatic(doc, i) ==
    LoadStaticTargets([reg |-> EmptyBlocks(0), heap |-> << NewTarget(FALSE) >>], 1,
                      SubSeq(doc.static_targets, 1, i)).heap[1]
HandedMoving(doc, i) ==
    LoadMovingTargets([reg |-> EmptyBlocks(0), heap |-> << NewTarget(TRUE) >>], 1,
                      SubSeq(doc.moving_targets, 1, i)).heap[1]

\* the registry and the targets when lines 263-336 are through
TargetsLoaded == LoadTargets(EmptyBlocks(0), << >>, files.target.doc)

\* target t is as definition def of the target document says
AsDefined(t, def) == t.target_name = def.target_name /\ t.pts = def.points

\* C22: load() hands the registry one distinct target per definition: the i-th
\* addStaticTarget() or addMovingTarget() call receives a target with the name
\* and exactly the points of definition i, and when the targets are loaded the
\* registry holds one target per definition, each with its own name and points.
C22_OneTargetPerDefinition ==
    LoadDone =>
        LET doc == files.target.doc
            static == TargetsLoaded.reg.static_targets
            moving == TargetsLoaded.reg.moving_targets
        IN  /\ \A i \in 1..Len(doc.static_targets) :
                  AsDefined(HandedStatic(doc, i), doc.static_targets[i])
            /\ \A i \in 1..Len(doc.moving_targets) :
                  AsDefined(HandedMoving(doc, i), doc.moving_targets[i])
            /\ Len(static) = Len(doc.static_targets)
            /\ Cardinality(Range(static)) = Len(static)
            /\ \A i \in 1..Len(static) :
                  AsDefined(TargetsLoaded.heap[static[i]], doc.static_targets[i])
            /\ Len(moving) = Len(doc.moving_targets)
            /\ Cardinality({ m.targ : m \in Range(moving) }) = Len(moving)
            /\ \A i \in 1..Len(moving) :
                  AsDefined(TargetsLoaded.heap[moving[i].targ], doc.moving_targets[i])

====
